---- MODULE Spec2Model ----
(***************************************************************************)
(* Model of source_separation/synthesize.py: the three inference modes     *)
(* (separate = run, validate, test_dir), the signal transforms they call   *)
(* and the worker tasks of the directory mode.                             *)
(*                                                                         *)
(* Samples are fixed-point integers: the value 1.0 is One units.  A        *)
(* product with the pre-emphasis coefficient is rounded towards minus      *)
(* infinity to a whole unit, deterministically.  Strings (paths) are       *)
(* sequences of one-character strings.                                     *)
(***************************************************************************)
EXTENDS Integers, Sequences, FiniteSets, TLC

VARIABLES
    pc,            \* position of the running sub-command
    writes,        \* librosa.output.write_wav calls done so far
    model_name,    \* the model built by __load_model
    batch_size,    \* batch_size argument (validate, test_dir)
    \* ---- run (separate)
    audio,         \* samples librosa.load returns for audio_file
    lowpass_freq,  \* lowpass_freq argument
    wav,           \* local wav of run
    out_wav,       \* local out_wav of run
    steps,         \* the transform calls run has made, in call order
    \* ---- validate
    loader,        \* the items valid_loader will yield, in order
    noise_all, clean_all, results,   \* the three lists of validate
    w_idx,         \* <<idx, in_idx>> of the write loops of validate
    \* ---- test_dir
    in_dir,        \* in_dir argument, as spelled by the caller
    tree,          \* the *.wav files below in_dir: [rel, wav], in glob order
    wav_list,      \* local wav_list of test_dir
    num_workers,   \* n_jobs of the joblib pool
    batch_idx,     \* loop variable batch_idx of test_dir
    inferred,      \* number of forward passes test_dir has made
    tasks,         \* the delayed(test_worker) calls handed to the pool
    unwritable     \* destination directories in which a write raises

vars == <<pc, writes, model_name, batch_size, audio, lowpass_freq, wav, out_wav,
          steps, loader, noise_all, clean_all, results, w_idx, in_dir, tree,
          wav_list, num_workers, batch_idx, inferred, tasks, unwritable>>

runVars == <<audio, lowpass_freq, wav, out_wav, steps>>
valVars == <<loader, noise_all, clean_all, results, w_idx>>
dirVars == <<in_dir, tree, wav_list, num_workers, batch_idx, inferred, tasks,
             unwritable>>

----------------------------------------------------------------------------
(* Bounds of the model *)

MaxLen == 3        \* longest input waveform, in samples
MaxFiles == 3      \* most items of a dataset / files of a directory

(* Program constants *)

One == 4           \* the sample value 1.0 of clip(-1., 1.), in units
CoeffNum == 97     \* pre-emphasis coefficient 0.97 = CoeffNum / CoeffDen
CoeffDen == 100

Min(a, b) == IF a < b THEN a ELSE b
Max(a, b) == IF a > b THEN a ELSE b

\* a * x for the coefficient a, rounded to a whole unit
MulCoeff(x) == (CoeffNum * x) \div CoeffDen

----------------------------------------------------------------------------
(* Signal transforms (pytorch_sound.utils.sound) *)

RECURSIVE DeEmphRec(_, _)
DeEmphRec(y, n) ==
    IF n = 0 THEN << >>
    ELSE LET prev == DeEmphRec(y, n - 1)
         IN  IF n = 1 THEN << y[1] >>
             ELSE Append(prev, y[n] + MulCoeff(prev[n - 1]))

\* y[0] = x[0], y[n] = x[n] - a * x[n-1]
preemphasis(x) ==
    [n \in 1..Len(x) |-> IF n = 1 THEN x[1] ELSE x[n] - MulCoeff(x[n - 1])]

\* x[0] = y[0], x[n] = y[n] + a * x[n-1]
inv_preemphasis(y) == DeEmphRec(y, Len(y))

\* zero-phase smoothing of a buffer; the edges repeat the end samples
lowpass(x, frequency) ==
    [n \in 1..Len(x) |->
        LET l == x[Max(n - 1, 1)]
            r == x[Min(n + 1, Len(x))]
        IN  (l + 2 * x[n] + r) \div 4]

\* ndarray.clip(-1., 1.)
clip(x) == [n \in 1..Len(x) |-> Max(0 - One, Min(One, x[n]))]

(* The model is a black box waveform -> waveform of the same length; two   *)
(* stand-ins: the identity, and one whose output leaves [-1, 1].           *)
ModelNames == {"identity", "amplify"}

Forward(name, x) ==
    IF name = "identity" THEN x ELSE [n \in 1..Len(x) |-> 3 * x[n]]

----------------------------------------------------------------------------
(* Strings and paths (str, os.path, pathlib) *)

Sep == "/"

StartsWith(s, t) == Len(t) <= Len(s) /\ SubSeq(s, 1, Len(t)) = t

Drop(s, k) == SubSeq(s, k + 1, Len(s))

\* str.replace(old, ''): every non-overlapping occurrence, leftmost first
RECURSIVE StrRemove(_, _)
StrRemove(s, old) ==
    IF s = << >> THEN << >>
    ELSE IF StartsWith(s, old) THEN StrRemove(Drop(s, Len(old)), old)
    ELSE << s[1] >> \o StrRemove(Drop(s, 1), old)

\* index of the last separator of p, 0 when there is none
LastSep(p) ==
    LET at == {i \in 1..Len(p) : p[i] = Sep}
    IN  IF at = {} THEN 0 ELSE CHOOSE i \in at : \A j \in at : j <= i

RECURSIVE RStripSep(_)
RStripSep(s) ==
    IF s # << >> /\ s[Len(s)] = Sep THEN RStripSep(SubSeq(s, 1, Len(s) - 1))
    ELSE s

\* os.path.dirname
dirname(p) ==
    LET head == SubSeq(p, 1, LastSep(p))
    IN  IF RStripSep(head) = << >> THEN head ELSE RStripSep(head)

\* os.path.basename
basename(p) == Drop(p, LastSep(p))

\* os.path.join(a, b)
join(a, b) ==
    IF b # << >> /\ b[1] = Sep THEN b
    ELSE IF a = << >> \/ a[Len(a)] = Sep THEN a \o b
    ELSE a \o << Sep >> \o b

\* str(Path(s)): trailing separators are dropped
PathStr(s) == IF RStripSep(s) = << >> THEN SubSeq(s, 1, 1) ELSE RStripSep(s)

\* decimal digits of '{}'.format(n), n >= 0
Digits == << "0", "1", "2", "3", "4", "5", "6", "7", "8", "9" >>

RECURSIVE Format(_)
Format(n) ==
    IF n < 10 THEN << Digits[n + 1] >>
    ELSE Format(n \div 10) \o << Digits[(n % 10) + 1] >>

out_dir == << "o" >>
out_path == << "o", ".", "w" >>

----------------------------------------------------------------------------
(* separate: run(audio_file, out_path, model_name, pretrained_path,        *)
(*               lowpass_freq, sample_rate)                                *)

Samples == {0 - One, -1, 0, 1, One}
LowpassFreqs == {0, 4000}

Waves(S) == UNION {[1..n -> S] : n \in 1..MaxLen}

\* librosa.load, preemphasis, astype(np.float32)
RunLoad ==
    /\ pc = "run"
    /\ wav' = preemphasis(audio)
    /\ steps' = Append(steps, "preemphasis")
    /\ pc' = "run_infer"
    /\ UNCHANGED <<writes, model_name, batch_size, audio, lowpass_freq, out_wav,
                   valVars, dirVars>>

\* __load_model, model(wav), out_wav[0]
RunInfer ==
    /\ pc = "run_infer"
    /\ out_wav' = Forward(model_name, wav)
    /\ steps' = Append(steps, "model")
    /\ pc' = "run_lowpass"
    /\ UNCHANGED <<writes, model_name, batch_size, audio, lowpass_freq, wav,
                   valVars, dirVars>>

\* run filtering whatever lowpass_freq is
RunLowpassAlways ==
    /\ pc = "run_lowpass"
    /\ out_wav' = lowpass(out_wav, lowpass_freq)
    /\ steps' = Append(steps, "lowpass")
    /\ pc' = "run_write"
    /\ UNCHANGED <<writes, model_name, batch_size, audio, lowpass_freq, wav,
                   valVars, dirVars>>

\* if lowpass_freq: out_wav = lowpass(out_wav, frequency=lowpass_freq)
RunLowpass ==
    /\ pc = "run_lowpass"
    /\ IF lowpass_freq # 0
       THEN /\ out_wav' = lowpass(out_wav, lowpass_freq)
            /\ steps' = Append(steps, "lowpass")
       ELSE UNCHANGED <<out_wav, steps>>
    /\ pc' = "run_write"
    /\ UNCHANGED <<writes, model_name, batch_size, audio, lowpass_freq, wav,
                   valVars, dirVars>>

\* run without the inverse transform
RunPersistedNoInverse(w) == clip(w)

\* the buffer run hands to write_wav
RunPersisted(w) == clip(inv_preemphasis(w))

\* write_wav(out_path, inv_preemphasis(out_wav).clip(-1., 1.), sample_rate)
RunWrite ==
    /\ pc = "run_write"
    /\ writes' = writes \cup
          {[path |-> out_path, data |-> RunPersisted(out_wav), item |-> 0,
            kind |-> "pred"]}
    /\ steps' = steps \o << "inv_preemphasis", "clip", "write_wav" >>
    /\ pc' = "done"
    /\ UNCHANGED <<model_name, batch_size, audio, lowpass_freq, wav, out_wav,
                   valVars, dirVars>>

InitRun ==
    /\ pc = "run"
    /\ writes = {}
    /\ model_name \in ModelNames
    /\ batch_size = 1
    /\ audio \in Waves(Samples)
    /\ lowpass_freq \in LowpassFreqs
    /\ wav = << >>
    /\ out_wav = << >>
    /\ steps = << >>
    /\ loader = << >> /\ noise_all = << >> /\ clean_all = << >>
    /\ results = << >> /\ w_idx = << 0, 0 >>
    /\ in_dir = << >> /\ tree = << >> /\ wav_list = << >> /\ num_workers = 1
    /\ batch_idx = 0 /\ inferred = 0 /\ tasks = << >> /\ unwritable = {}

NextRun == RunLoad \/ RunInfer \/ RunLowpass \/ RunWrite

SpecRun == InitRun /\ [][NextRun]_vars

----------------------------------------------------------------------------
(* Batches (torch DataLoader, SpeechDataLoader.pad_collate_fn) *)

MaxBatch == 2      \* largest batch_size argument

\* one waveform of every length: +1.0, -1.0, +1.0, ...
Tone(n) == [i \in 1..n |-> IF i % 2 = 1 THEN One ELSE 0 - One]

\* number of batches a loader over n items yields
NumBatches(n) == (n + batch_size - 1) \div batch_size

\* dataset indices (from 1) of the k-th batch (from 0) of n items, shuffle=False
BatchIndices(k, n) ==
    [j \in 1..(Min((k + 1) * batch_size, n) - k * batch_size) |->
        k * batch_size + j]

MaxOf(S) == CHOOSE x \in S : \A y \in S : y <= x

\* right-zero-padding of every row to the longest row
pad_collate_fn(rows) ==
    LET L == MaxOf({Len(rows[j]) : j \in 1..Len(rows)})
    IN  [j \in 1..Len(rows) |->
            rows[j] \o [i \in 1..(L - Len(rows[j])) |-> 0]]

----------------------------------------------------------------------------
(* validate(meta_dir, out_dir, model_name, pretrained_path, batch_size,    *)
(*          num_workers)                                                   *)

\* pytorch_sound.models.sound.PreEmphasis, on one row
PreEmphasis(x) == preemphasis(x)

\* the k-th batch (from 0) valid_loader yields: <<noise rows, clean rows>>
LoaderBatch(k) ==
    LET at == BatchIndices(k, Len(loader))
    IN  << pad_collate_fn([j \in 1..Len(at) |-> loader[at[j]].noise]),
           pad_collate_fn([j \in 1..Len(at) |-> loader[at[j]].clean]) >>

\* body of the loop over valid_loader
ValidateInfer ==
    /\ pc = "validate"
    /\ Len(results) < NumBatches(Len(loader))
    /\ LET b == LoaderBatch(Len(results))
           noise == [j \in 1..Len(b[1]) |-> PreEmphasis(b[1][j])]
       IN  /\ noise_all' = Append(noise_all, noise)
           /\ clean_all' = Append(clean_all, b[2])
           /\ results' = Append(results,
                 [j \in 1..Len(noise) |-> Forward(model_name, noise[j])])
    /\ UNCHANGED <<pc, writes, model_name, batch_size, loader, w_idx, runVars,
                   dirVars>>

\* valid_loader is exhausted: the write loops start
ValidateInferDone ==
    /\ pc = "validate"
    /\ Len(results) = NumBatches(Len(loader))
    /\ pc' = "val_write"
    /\ UNCHANGED <<writes, model_name, batch_size, valVars, runVars, dirVars>>

\* idx * batch_size + in_idx without the batch stride
FileIndexNoStride(idx, in_idx) == idx + in_idx

\* idx * batch_size + in_idx
FileIndex(idx, in_idx) == idx * batch_size + in_idx

\* os.path.join(out_dir, '{}_<kind>.wav'.format(n))
ValPath(n, kind) == join(out_dir, Format(n) \o << "_", kind, ".wav" >>)

\* number of items in the batches before batch idx (from 0)
RECURSIVE ItemsBefore(_)
ItemsBefore(idx) ==
    IF idx = 0 THEN 0 ELSE ItemsBefore(idx - 1) + Len(results[idx])

\* body of the inner write loop: the three files of one item
ValidateWrite ==
    /\ pc = "val_write"
    /\ w_idx[1] < Min(Len(results), Min(Len(noise_all), Len(clean_all)))
    /\ LET idx == w_idx[1]
           in_idx == w_idx[2]
           n == FileIndex(idx, in_idx)
           item == ItemsBefore(idx) + in_idx
           clean_hat == results[idx + 1][in_idx + 1]
           noise == noise_all[idx + 1][in_idx + 1]
           clean == clean_all[idx + 1][in_idx + 1]
       IN  /\ writes' = writes \cup
                 { [path |-> ValPath(n, "clean"), data |-> clean,
                    item |-> item, kind |-> "clean"],
                   [path |-> ValPath(n, "noise"), data |-> inv_preemphasis(noise),
                    item |-> item, kind |-> "noise"],
                   [path |-> ValPath(n, "pred"),
                    data |-> clip(inv_preemphasis(clean_hat)),
                    item |-> item, kind |-> "pred"] }
           /\ w_idx' = IF in_idx + 1 < Len(results[idx + 1])
                       THEN << idx, in_idx + 1 >>
                       ELSE << idx + 1, 0 >>
    /\ UNCHANGED <<pc, model_name, batch_size, loader, noise_all, clean_all,
                   results, runVars, dirVars>>

\* the write loops are exhausted
ValidateFinish ==
    /\ pc = "val_write"
    /\ w_idx[1] >= Len(results)
    /\ pc' = "done"
    /\ UNCHANGED <<writes, model_name, batch_size, valVars, runVars, dirVars>>

\* the datasets valid_loader is built over: noisy / clean pairs of one length
ValItems == {[noise |-> Tone(n), clean |-> clip(preemphasis(Tone(n)))] :
                n \in 1..MaxLen}

InitValidate ==
    /\ pc = "validate"
    /\ writes = {}
    /\ model_name \in ModelNames
    /\ batch_size \in 1..MaxBatch
    /\ loader \in UNION {[1..n -> ValItems] : n \in 1..MaxFiles}
    /\ noise_all = << >> /\ clean_all = << >> /\ results = << >>
    /\ w_idx = << 0, 0 >>
    /\ audio = << >> /\ lowpass_freq = 0 /\ wav = << >> /\ out_wav = << >>
    /\ steps = << >>
    /\ in_dir = << >> /\ tree = << >> /\ wav_list = << >> /\ num_workers = 1
    /\ batch_idx = 0 /\ inferred = 0 /\ tasks = << >> /\ unwritable = {}

NextValidate ==
    ValidateInfer \/ ValidateInferDone \/ ValidateWrite \/ ValidateFinish

SpecValidate == InitValidate /\ [][NextValidate]_vars

----------------------------------------------------------------------------
(* test_dir(in_dir, out_dir, model_name, pretrained_path, sample_rate,     *)
(*          num_workers, batch_size), WaveDataset and test_worker          *)

MaxWorkers == 2    \* largest num_workers argument

\* str(p) for p in Path(in_dir).glob('**/*.wav'), for the file at rel
GlobPath(dir, rel) == join(PathStr(dir), rel)

\* librosa.load(path)[0]: the samples of the file at path
Load(path) ==
    tree[CHOOSE k \in 1..Len(tree) : GlobPath(in_dir, tree[k].rel) = path].wav

\* WaveDataset.__getitem__(idx), idx from 1: [preemphasis(wav), len(wav)]
WaveDataset_getitem(idx) ==
    LET w == Load(wav_list[idx])
    IN  [wav |-> preemphasis(w), len |-> Len(w)]

\* out_file_path of test_worker
OutFilePath(file_path, dir) ==
    LET sub_dir == StrRemove(dirname(file_path), dir)
        file_out_dir == join(out_dir, sub_dir)
    IN  join(file_out_dir, basename(file_path))

\* out_wav[:l] keeping one sample too few
TruncateShort(w, l) == SubSeq(w, 1, Min(l, Len(w)) - 1)

\* out_wav[:l]
Truncate(w, l) == SubSeq(w, 1, Min(l, Len(w)))

\* the buffer test_worker hands to write_wav
WorkerPersisted(w, l) == inv_preemphasis(Truncate(w, l))

\* print('Lookup wave files ...'), glob, __load_model, makedirs(out_dir)
TestDirLookup ==
    /\ pc = "test_dir"
    /\ wav_list' = [k \in 1..Len(tree) |-> GlobPath(in_dir, tree[k].rel)]
    /\ pc' = "loop"
    /\ UNCHANGED <<writes, model_name, batch_size, in_dir, tree, num_workers,
                   batch_idx, inferred, tasks, unwritable, runVars, valVars>>

\* wav_list[batch_idx:batch_idx + batch_size] taken at the batch number
BatchPathsByNumber ==
    SubSeq(wav_list, inferred + 1, Min(inferred + batch_size, Len(wav_list)))

\* wav_list[batch_idx:batch_idx + batch_size]
BatchPaths ==
    SubSeq(wav_list, batch_idx + 1, Min(batch_idx + batch_size, Len(wav_list)))

\* the loop of test_dir is at its head and zip(data_loader, range(...)) has
\* a next pair
CanForward ==
    /\ pc = "loop"
    /\ inferred < NumBatches(Len(wav_list))
    /\ batch_idx < Len(wav_list)

\* one loop pass up to the pool call: the next batch of data_loader, the
\* forward pass, and the zipping_list of delayed test_worker calls
TestDirForward ==
    /\ CanForward
    /\ LET at == BatchIndices(inferred, Len(wav_list))
           dp == [j \in 1..Len(at) |-> WaveDataset_getitem(at[j])]
           batch_wav == pad_collate_fn([j \in 1..Len(dp) |-> dp[j].wav])
           lens == [j \in 1..Len(dp) |-> dp[j].len]
           batch_clean_hat ==
               [j \in 1..Len(batch_wav) |-> Forward(model_name, batch_wav[j])]
           paths == BatchPaths
           n == Min(Len(batch_clean_hat), Min(Len(paths), Len(lens)))
       IN  tasks' = tasks \o
               [j \in 1..n |->
                   [out_wav |-> batch_clean_hat[j], file_path |-> paths[j],
                    l |-> lens[j], batch |-> inferred, status |-> "queued"]]
    /\ inferred' = inferred + 1
    /\ pc' = "parallel"
    /\ UNCHANGED <<writes, model_name, batch_size, in_dir, tree, wav_list,
                   num_workers, batch_idx, unwritable, runVars, valVars>>

Running == {i \in 1..Len(tasks) : tasks[i].status = "running"}
Unfinished == {i \in 1..Len(tasks) : tasks[i].status \in {"queued", "running"}}

\* the worker processes live until the pool is torn down
PoolAlive == pc \in {"loop", "parallel"}

\* call i is in a worker that can run it to its end
CanFinish(i) == PoolAlive /\ tasks[i].status = "running"

\* a free worker of the pool takes the next queued call
WorkerStart(i) ==
    /\ PoolAlive
    /\ tasks[i].status = "queued"
    /\ \A j \in 1..(i - 1) : tasks[j].status # "queued"
    /\ Cardinality(Running) < num_workers
    /\ tasks' = [tasks EXCEPT ![i].status = "running"]
    /\ UNCHANGED <<pc, writes, model_name, batch_size, in_dir, tree, wav_list,
                   num_workers, batch_idx, inferred, unwritable, runVars,
                   valVars>>

\* test_worker runs to its end: makedirs, out_wav[:l], squeeze,
\* inv_preemphasis, write_wav
WorkerWrite(i) ==
    /\ CanFinish(i)
    /\ OutFilePath(tasks[i].file_path, in_dir) \notin unwritable
    /\ writes' = writes \cup
          {[path |-> OutFilePath(tasks[i].file_path, in_dir),
            data |-> WorkerPersisted(tasks[i].out_wav, tasks[i].l),
            item |-> i, kind |-> "pred"]}
    /\ tasks' = [tasks EXCEPT ![i].status = "done"]
    /\ UNCHANGED <<pc, model_name, batch_size, in_dir, tree, wav_list,
                   num_workers, batch_idx, inferred, unwritable, runVars,
                   valVars>>

\* test_worker raises: makedirs or write_wav fail on the destination, or the
\* one-sample buffer, 0-d after squeeze(), is refused by the libraries
WorkerRaise(i) ==
    /\ CanFinish(i)
    /\ \/ OutFilePath(tasks[i].file_path, in_dir) \in unwritable
       \/ Len(Truncate(tasks[i].out_wav, tasks[i].l)) = 1
    /\ tasks' = [tasks EXCEPT ![i].status = "failed"]
    /\ UNCHANGED <<pc, writes, model_name, batch_size, in_dir, tree, wav_list,
                   num_workers, batch_idx, inferred, unwritable, runVars,
                   valVars>>

\* the pool call returning while calls are still running
NoneQueued ==
    \A i \in 1..Len(tasks) : tasks[i].status \in {"running", "done"}

\* every call handed to the pool has returned
AllDone == \A i \in 1..Len(tasks) : tasks[i].status = "done"

\* parallel(...) returns, the loop goes to its next pass
ParallelReturn ==
    /\ pc = "parallel"
    /\ AllDone
    /\ batch_idx' = batch_idx + batch_size
    /\ pc' = "loop"
    /\ UNCHANGED <<writes, model_name, batch_size, in_dir, tree, wav_list,
                   num_workers, inferred, tasks, unwritable, runVars, valVars>>

\* parallel(...) re-raises the exception of a failed call: test_dir ends,
\* the pool is torn down
ParallelAbort ==
    /\ pc = "parallel"
    /\ \E i \in 1..Len(tasks) : tasks[i].status = "failed"
    /\ pc' = "aborted"
    /\ UNCHANGED <<writes, model_name, batch_size, dirVars, runVars, valVars>>

\* data_loader / range is exhausted: print('Finish !')
TestDirFinish ==
    /\ pc = "loop"
    /\ ~ CanForward
    /\ pc' = "done"
    /\ UNCHANGED <<writes, model_name, batch_size, dirVars, runVars, valVars>>

NextTestDir ==
    \/ TestDirLookup
    \/ TestDirForward
    \/ \E i \in 1..Len(tasks) : WorkerStart(i)
    \/ \E i \in 1..Len(tasks) : WorkerWrite(i)
    \/ \E i \in 1..Len(tasks) : WorkerRaise(i)
    \/ ParallelReturn
    \/ ParallelAbort
    \/ TestDirFinish

\* the parts of the start state every directory run shares
InitDirCommon ==
    /\ pc = "test_dir"
    /\ writes = {}
    /\ wav_list = << >>
    /\ batch_idx = 0 /\ inferred = 0 /\ tasks = << >>
    /\ unwritable \in {{}} \cup
          {{OutFilePath(GlobPath(in_dir, tree[k].rel), in_dir)} :
              k \in 1..Len(tree)}
    /\ audio = << >> /\ lowpass_freq = 0 /\ wav = << >> /\ out_wav = << >>
    /\ steps = << >>
    /\ loader = << >> /\ noise_all = << >> /\ clean_all = << >>
    /\ results = << >> /\ w_idx = << 0, 0 >>

\* directories of files of every length, b/0.wav, b/1.wav, ... below a/
InitTestDir ==
    /\ in_dir = << "a", Sep >>
    /\ tree \in UNION {
          {[k \in 1..n |->
               [rel |-> << "b", Sep >> \o Format(k - 1) \o << ".wav" >>,
                wav |-> Tone(len[k])]] : len \in [1..n -> 1..MaxLen]} :
          n \in 0..MaxFiles}
    /\ model_name \in ModelNames
    /\ batch_size \in 1..MaxBatch
    /\ num_workers \in 1..MaxWorkers
    /\ InitDirCommon

SpecTestDir == InitTestDir /\ [][NextTestDir]_vars

\* spellings of in_dir, and places of x.wav below it
InDirs == { << "a" >>, << "a", Sep >> }
RelPaths == { << "x.wav" >>,
              << "b", Sep, "x.wav" >>,
              << "a", Sep, "x.wav" >>,
              << "a", "b", Sep, "x.wav" >>,
              << "b", Sep, "a", Sep, "x.wav" >> }

\* directories of two-sample files at any of the places
InitPaths ==
    /\ in_dir \in InDirs
    /\ tree \in UNION {
          {[k \in 1..n |-> [rel |-> rels[k], wav |-> Tone(2)]] :
              rels \in {r \in [1..n -> RelPaths] :
                           \A j, k \in 1..n : j # k => r[j] # r[k]}} :
          n \in 1..Min(MaxFiles, Cardinality(RelPaths))}
    /\ model_name = "identity"
    /\ batch_size \in {1, MaxBatch}
    /\ num_workers = MaxWorkers
    /\ InitDirCommon

SpecPaths == InitPaths /\ [][NextTestDir]_vars

----------------------------------------------------------------------------
(* Properties of the single-file mode *)

\* position of step e in the call log s, 0 when e was not called
Pos(s, e) ==
    LET at == {i \in 1..Len(s) : s[i] = e}
    IN  IF at = {} THEN 0 ELSE CHOOSE i \in at : \A j \in at : i <= j

\* C1: the inverse transform undoes the forward transform sample for sample
\* and keeps the length (length 1 included); so with the identity model and
\* lowpass_freq = 0, run persists clip(x) for the loaded waveform x.
C1_RoundTrip ==
    /\ pc \in {"run_infer", "run_lowpass", "run_write", "done"} =>
          /\ Len(wav) = Len(audio)
          /\ inv_preemphasis(wav) = audio
    /\ (pc = "done" /\ model_name = "identity" /\ lowpass_freq = 0) =>
          /\ writes # {}
          /\ \A w \in writes : w.path = out_path /\ w.data = clip(audio)

C1_Witness ==
    /\ pc = "done" /\ model_name = "identity" /\ lowpass_freq = 0
    /\ Len(audio) = MaxLen
    /\ wav # audio
    /\ \E w \in writes : w.data = audio /\ \E n \in 1..Len(audio) : audio[n] # 0

\* C9 (as stated): the steps run in the order de-emphasis, low-pass (only for
\* a nonzero cutoff), clip, write; the low-pass is skipped for a zero cutoff.
C9_DeEmphasisBeforeLowpass ==
    pc = "done" =>
        /\ 0 < Pos(steps, "inv_preemphasis")
        /\ Pos(steps, "inv_preemphasis") < Pos(steps, "clip")
        /\ Pos(steps, "clip") < Pos(steps, "write_wav")
        /\ lowpass_freq # 0 =>
              /\ Pos(steps, "inv_preemphasis") < Pos(steps, "lowpass")
              /\ Pos(steps, "lowpass") < Pos(steps, "clip")
        /\ lowpass_freq = 0 => Pos(steps, "lowpass") = 0

\* C9 (amended): in the single-file mode the steps run in the order low-pass
\* (only for a nonzero cutoff, on the raw model output), de-emphasis, clip,
\* write; the low-pass is skipped for a zero cutoff.
C9_LowpassBeforeDeEmphasis ==
    pc = "done" =>
        /\ 0 < Pos(steps, "model")
        /\ Pos(steps, "model") < Pos(steps, "inv_preemphasis")
        /\ Pos(steps, "inv_preemphasis") < Pos(steps, "clip")
        /\ Pos(steps, "clip") < Pos(steps, "write_wav")
        /\ lowpass_freq # 0 =>
              /\ Pos(steps, "model") < Pos(steps, "lowpass")
              /\ Pos(steps, "lowpass") < Pos(steps, "inv_preemphasis")
              /\ \A w \in writes : w.data =
                    clip(inv_preemphasis(lowpass(Forward(model_name, wav),
                                                 lowpass_freq)))
        /\ lowpass_freq = 0 =>
              /\ Pos(steps, "lowpass") = 0
              /\ \A w \in writes : w.data =
                    clip(inv_preemphasis(Forward(model_name, wav)))

C9_Witness ==
    /\ pc = "done" /\ lowpass_freq # 0
    /\ Pos(steps, "lowpass") > 0
    /\ \E w \in writes :
          /\ w.data # clip(inv_preemphasis(Forward(model_name, wav)))
          /\ w.data # clip(lowpass(inv_preemphasis(Forward(model_name, wav)),
                                   lowpass_freq))

----------------------------------------------------------------------------
(* Properties of the validation mode *)

KindsOf(n) == {w.kind : w \in {v \in writes : v.item = n}}

\* C10: the file index idx * batch_size + in_idx differs between different
\* (batch, item) pairs, the indices used are exactly 0..N-1 for N items (all
\* batches but the last are full), and every index gets exactly its three
\* files, none of them written for another item.
C10_ValidateIndices ==
    /\ \A w \in writes : w.path = ValPath(w.item, w.kind)
    /\ \A v, w \in writes : v.path = w.path => (v.item = w.item /\ v.kind = w.kind)
    /\ \A w \in writes : KindsOf(w.item) = {"noise", "pred", "clean"}
    /\ \E k \in 0..Len(loader) : {w.item : w \in writes} = 0..(k - 1)
    /\ pc = "done" =>
          /\ {w.item : w \in writes} = 0..(Len(loader) - 1)
          /\ Cardinality({w.path : w \in writes}) = 3 * Len(loader)

C10_Witness ==
    /\ pc = "done"
    /\ batch_size = 2
    /\ Len(loader) = 3
    /\ Len(results) = 2 /\ Len(results[2]) = 1
    /\ \E w \in writes : w.item = 2 /\ w.path = ValPath(2, "pred")

----------------------------------------------------------------------------
(* Properties of the directory mode *)

\* the place below in_dir of the file a worker call was made for
RelOf(file_path) ==
    tree[CHOOSE k \in 1..Len(tree) : GlobPath(in_dir, tree[k].rel) = file_path].rel

\* the padded, pre-emphasized row of the k-th discovered file in its batch
RowOf(k) ==
    LET b == (k - 1) \div batch_size
        at == BatchIndices(b, Len(tree))
    IN  pad_collate_fn([j \in 1..Len(at) |-> preemphasis(tree[at[j]].wav)])
            [k - b * batch_size]

\* C2: the buffer test_worker persists for an input waveform w has exactly
\* len(w) samples, whatever the other lengths in the batch of w.
C2_LengthPreserved ==
    \A w \in writes :
        Len(w.data) = Len(Load(tasks[w.item].file_path))

C2_Witness ==
    /\ pc = "done"
    /\ \E v, w \in writes :
          /\ tasks[v.item].batch = tasks[w.item].batch
          /\ Len(v.data) = 2 /\ Len(tasks[v.item].out_wav) = 3
          /\ Len(w.data) = 3 /\ Len(tasks[w.item].out_wav) = 3

\* C3: every persisted model output has all its samples in [-1.0, 1.0].
\* (Stated for buffers of two samples or more, which every library writes.)
C3_PersistedClipped ==
    \A w \in {v \in writes : v.kind = "pred" /\ Len(v.data) >= 2} :
        \A n \in 1..Len(w.data) : 0 - One <= w.data[n] /\ w.data[n] <= One

\* C4: when the write of one item fails, test_dir still runs to its end and
\* every item with a writable destination, in this and in later batches, is
\* written.  (Files of two samples or more: no other failure is in play.)
C4_FailureIsolated ==
    (/\ pc \in {"done", "aborted"}
     /\ \A k \in 1..Len(tree) : Len(tree[k].wav) >= 2) =>
        /\ pc = "done"
        /\ \A k \in 1..Len(wav_list) :
              OutFilePath(wav_list[k], in_dir) \notin unwritable =>
                 \E w \in writes : w.path = OutFilePath(wav_list[k], in_dir)

\* C5: the worker call for row i of batch b gets the path
\* wav_list[b * batch_size + i], the recorded length of that file and the
\* output computed from that file's waveform; in the end every discovered
\* file has exactly one call, the last, short batch included.
C5_RowsMatchFiles ==
    /\ Len(tasks) <= Len(wav_list)
    /\ \A k \in 1..Len(tasks) :
          /\ tasks[k].batch = (k - 1) \div batch_size
          /\ tasks[k].file_path = wav_list[k]
          /\ tasks[k].file_path = GlobPath(in_dir, tree[k].rel)
          /\ tasks[k].l = Len(tree[k].wav)
          /\ tasks[k].out_wav = Forward(model_name, RowOf(k))
    /\ pc = "done" => Len(tasks) = Len(wav_list)

C5_Witness ==
    /\ pc = "done"
    /\ batch_size = 2
    /\ Len(tasks) = 3
    /\ tasks[3].batch = 1
    /\ tasks[1].l # tasks[2].l /\ tasks[2].l # tasks[3].l
    /\ \A k \in 1..3 : tasks[k].status = "done"

\* C6: the destination test_worker computes for a file is out_dir joined
\* with the file's path relative to in_dir, and lies inside out_dir.
C6_PathMirrored ==
    \A w \in writes :
        /\ w.path = join(out_dir, RelOf(tasks[w.item].file_path))
        /\ StartsWith(w.path, out_dir \o << Sep >>)

\* C7: two distinct input files never get the same destination path.
C7_UniqueDestinations ==
    \A v, w \in writes : v.item # w.item => v.path # w.path

====
